---- MODULE Spec2Model ----
(***************************************************************************)
(* Model of denonavr/ssdp.py: SSDP discovery of Denon/Marantz receivers.   *)
(*                                                                         *)
(* A Python str / bytes value is a sequence of tokens (one-character       *)
(* strings, or longer strings standing for a run of characters that holds  *)
(* no whitespace, no CR/LF and no header name).  An optional text (the     *)
(* .text of an XML element, a dict value) is Str(t) or None.               *)
(***************************************************************************)
EXTENDS Integers, Sequences, FiniteSets, TLC

VARIABLES
    adapters,   \* what ifaddr.get_adapters() reports: the ip entries, flattened
    pc,         \* position in identify_denonavr_receivers / send_ssdp_broadcast
    exc,        \* exception that left identify_denonavr_receivers: [type, line]
    ips,        \* send_ssdp_broadcast: ips
    ipIdx,      \* position of `for ip in ips`
    stIdx,      \* position of `for i, ssdp_st in enumerate(SSDP_ST_LIST)` (i + 1)
    socks,      \* every socket object created so far: [ip, st, open]
    sock,       \* send_ssdp_broadcast: sock (index into socks, 0 before the first)
    sent,       \* datagrams handed to sendto(), in order: [sock, ip, st, data, to]
    res,        \* send_ssdp_broadcast: res, the list of (data, sender) tuples
    entryIdx,   \* position of `for entry in res`
    urls,       \* send_ssdp_broadcast: urls (a set)
    todo,       \* identify_denonavr_receivers: urls not yet iterated
    cur,        \* identify_denonavr_receivers: url
    http,       \* outcome of requests.get(url, timeout=2) for cur
    receivers,  \* identify_denonavr_receivers: receivers
    origin,     \* history: for every evaluate_scpd_xml call, [url, http, ret]
    log,        \* records handed to _LOGGER: [level, msg]
    rcvdOn,     \* history: for every entry of res, the socket that received it
    elapsed,    \* seconds since sendto() of the broadcast being collected
    waited,     \* seconds the pending recvfrom() call has been blocked
    arg,        \* arguments of a function that is called on its own
    ret         \* what that call returned

\* a function called on its own
call == <<arg, ret>>
\* the clock of the receive loop
timer == <<elapsed, waited>>

vars == <<adapters, pc, exc, ips, ipIdx, stIdx, socks, sock, sent, res, entryIdx,
          urls, todo, cur, http, receivers, origin, log, rcvdOn, elapsed, waited,
          arg, ret>>

(***************************************************************************)
(* Bounds of the model.                                                    *)
(***************************************************************************)
\* longest list of ip entries the adapters report
MaxIps == 2
\* most datagrams received over one run
MaxRes == 2
\* most whitespace characters between a header name and its value
MaxGap == 2
\* largest magnitude of the mx argument of ssdp_request
MaxMx == 12

(***************************************************************************)
(* Module constants, ssdp.py lines 20-41.                                  *)
(***************************************************************************)
SSDP_ADDR == <<"239.255.255.250">>
SSDP_PORT == 1900
SSDP_MX == 2
SSDP_ST_1 == <<"ssdp:all">>
SSDP_ST_2 == <<"upnp:rootdevice">>
SSDP_ST_3 == <<"urn:schemas-upnp-org:device:MediaRenderer:1">>
SSDP_ST_LIST == <<SSDP_ST_1, SSDP_ST_2, SSDP_ST_3>>

SCPD_DEVICE == "device"
SCPD_DEVICETYPE == "deviceType"
SCPD_MANUFACTURER == "manufacturer"
SCPD_MODELNAME == "modelName"
SCPD_SERIALNUMBER == "serialNumber"
SCPD_FRIENDLYNAME == "friendlyName"
SCPD_PRESENTATIONURL == "presentationURL"

DEVICETYPE_DENON == <<"urn:schemas-upnp-org:device:MediaRenderer:1">>
SUPPORTED_MANUFACTURERS == {<<"Denon">>, <<"DENON">>, <<"Marantz">>}

(***************************************************************************)
(* Python values.                                                          *)
(***************************************************************************)
None == [isNone |-> TRUE, s |-> <<>>]
Str(t) == [isNone |-> FALSE, s |-> t]

Range(f) == {f[i] : i \in DOMAIN f}

\* str.format of an int with {} / {:d}: the decimal digits, most significant first
DigitChar(d) == <<"0", "1", "2", "3", "4", "5", "6", "7", "8", "9">>[d + 1]
RECURSIVE Digits(_)
Digits(n) ==
    IF n < 0 THEN <<"-">> \o Digits(0 - n)
    ELSE IF n < 10 THEN <<DigitChar(n)>>
    ELSE Digits(n \div 10) \o <<DigitChar(n % 10)>>

\* sep.join(parts)
RECURSIVE Join(_, _)
Join(sep, parts) ==
    IF Len(parts) = 0 THEN <<>>
    ELSE IF Len(parts) = 1 THEN parts[1]
    ELSE parts[1] \o sep \o Join(sep, Tail(parts))

\* the dotted-quad text ifaddr gives for an IPv4 address
IpText(o) == Join(<<".">>, [k \in 1..Len(o) |-> Digits(o[k])])

(***************************************************************************)
(* ssdp_request, lines 44-52.  The text is ASCII, which encode('utf-8')     *)
(* turns into the same characters, one byte each.                          *)
(***************************************************************************)
\* mutant of ssdp_request: the list ends with one empty string, not two
ssdp_requestOneBlank(ssdp_st, ssdp_mx) ==
    Join(<<"\r", "\n">>,
         << <<"M-SEARCH * HTTP/1.1">>,
            <<"ST: ">> \o ssdp_st,
            <<"MX: ">> \o Digits(ssdp_mx),
            <<"MAN: \"ssdp:discover\"">>,
            <<"HOST: ">> \o SSDP_ADDR \o <<":">> \o Digits(SSDP_PORT),
            <<>> >>)

ssdp_request(ssdp_st, ssdp_mx) ==
    Join(<<"\r", "\n">>,
         << <<"M-SEARCH * HTTP/1.1">>,
            <<"ST: ">> \o ssdp_st,
            <<"MX: ">> \o Digits(ssdp_mx),
            <<"MAN: \"ssdp:discover\"">>,
            <<"HOST: ">> \o SSDP_ADDR \o <<":">> \o Digits(SSDP_PORT),
            <<>>, <<>> >>)

(***************************************************************************)
(* get_local_ips, lines 55-64: the entries whose .ip is a str (IPv4; an    *)
(* IPv6 entry's .ip is a tuple).                                           *)
(***************************************************************************)
RECURSIVE get_local_ips(_)
get_local_ips(entries) ==
    IF entries = <<>> THEN <<>>
    ELSE (IF entries[1].is_str THEN <<IpText(entries[1].octets)>> ELSE <<>>)
         \o get_local_ips(Tail(entries))

(***************************************************************************)
(* Regular expressions.                                                    *)
(***************************************************************************)
\* what `.` matches: any character but a line feed
Dot(c) == c # "\n"
\* what \s matches on a str (the token "\\v" stands for the vertical tab)
Whitespace == {" ", "\t", "\n", "\r", "\f", "\\v"}

\* re.search("169.254.*.*", ip), line 102: unanchored, each `.` is any
\* character, and the tail `.*.*` also matches the empty string
LinkLocalSearch(ip) ==
    \E k \in 1..Len(ip) :
        /\ k + 6 <= Len(ip)
        /\ ip[k] = "1" /\ ip[k + 1] = "6" /\ ip[k + 2] = "9"
        /\ Dot(ip[k + 3])
        /\ ip[k + 4] = "2" /\ ip[k + 5] = "5" /\ ip[k + 6] = "4"

\* re.search('(?<=LOCATION:\s).+?(?=\\r)', text), line 134.
\* A match starts at k when the two characters before k are the header name
\* and one whitespace character, and ends at the first e >= k such that
\* text[k..e] holds no line feed and text[e + 1] is a carriage return.
LocStarts(text, k) ==
    /\ k >= 3
    /\ text[k - 2] = "LOCATION:"
    /\ text[k - 1] \in Whitespace
LocEnds(text, k) ==
    {e \in k..(Len(text) - 1) :
        /\ \A j \in k..e : Dot(text[j])
        /\ text[e + 1] = "\r"}
LocMatches(text) ==
    {k \in 1..Len(text) : LocStarts(text, k) /\ LocEnds(text, k) # {}}
Min(S) == CHOOSE x \in S : \A y \in S : x <= y
\* None when there is no match, else Str(match.group(0)): leftmost start,
\* shortest end
LocationSearch(text) ==
    IF LocMatches(text) = {} THEN None
    ELSE LET k == Min(LocMatches(text))
         IN  Str(SubSeq(text, k, Min(LocEnds(text, k))))

\* bytes.decode("utf-8"): the token "\\xff" stands for a byte sequence that is
\* not valid UTF-8
Decodable(data) == \A j \in 1..Len(data) : data[j] # "\\xff"

(***************************************************************************)
(* The environment: adapters, SSDP responders, HTTP servers.               *)
(***************************************************************************)
IPv4(o) == [is_str |-> TRUE, octets |-> o]
IPv6 == [is_str |-> FALSE, octets |-> <<>>]
\* ip entries an adapter may carry
LocalAddrs ==
    {IPv4(<<192, 168, 1, 10>>), IPv4(<<169, 254, 3, 4>>), IPv4(<<10, 169, 254, 1>>),
     IPv4(<<10, 1, 169, 254>>), IPv4(<<169, 25, 4, 1>>), IPv6}
\* ip entries of the adapters in the runs of the whole discovery
FacadeAddrs ==
    {IPv4(<<192, 168, 1, 10>>), IPv4(<<169, 254, 3, 4>>), IPv4(<<169, 25, 4, 1>>)}
\* lists of at most n distinct members of S
DistinctLists(S, n) ==
    UNION {{f \in [1..k -> S] : \A i, j \in 1..k : f[i] = f[j] => i = j} : k \in 0..n}

URL_A == <<"http://192.168.1.50:60006/desc.xml">>
URL_B == <<"http://192.168.1.51:8080/description.xml">>
StatusLine == <<"HTTP/1.1 200 OK", "\r", "\n">>
EndOfHeaders == <<"\r", "\n", "\r", "\n">>
\* datagrams a responder may send: (payload, sender)
Datagrams ==
    {<<StatusLine \o <<"LOCATION:", " ">> \o URL_A \o EndOfHeaders, "192.168.1.50">>,
     <<StatusLine \o <<"ST: upnp:rootdevice", "\r", "\n", "LOCATION:", " ">> \o URL_A
          \o EndOfHeaders, "192.168.1.50">>,
     <<StatusLine \o <<"LOCATION:", " ">> \o URL_B \o EndOfHeaders, "192.168.1.51">>,
     <<StatusLine \o <<"Location:", " ">> \o URL_B \o EndOfHeaders, "192.168.1.51">>,
     <<StatusLine \o <<"SERVER: ", "\\xff">> \o EndOfHeaders, "192.168.1.52">>}

\* sequences over S of length at most n
SeqsUpTo(S, n) == UNION {[1..k -> S] : k \in 0..n}
\* response texts written part by part: what precedes the location header,
\* the header name, the whitespace after its colon, the value, the rest
LocParts ==
    [before : {StatusLine, StatusLine \o <<"ST: upnp:rootdevice", "\r", "\n">>},
     name : {"LOCATION:", "Location:"},
     gap : SeqsUpTo({" ", "\t"}, MaxGap),
     value : {URL_A, URL_B, <<"http://10.0.0.5:60006", "/desc.xml">>},
     after : {EndOfHeaders,
              <<"\r", "\n", "USN: uuid:5f9ec1b3-ed59-1900-4530-0005cd3a1b2c">> \o EndOfHeaders,
              <<"\r", "\n", "SERVER: ", "\\xff">> \o EndOfHeaders}]
LocText(p) == p.before \o <<p.name>> \o p.gap \o p.value \o p.after

(***************************************************************************)
(* send_ssdp_broadcast, lines 90-139.                                      *)
(***************************************************************************)
\* an exception leaves the function: its type and the line that raised it
Raise(e, line) ==
    /\ pc' = "raised"
    /\ exc' = [type |-> e, line |-> line]
NoException == [type |-> "none", line |-> 0]

\* sock.close(): closing a closed socket changes nothing
Close(ss, k) == [ss EXCEPT ![k].open = FALSE]

Logged(level, msg) == Append(log, [level |-> level, msg |-> msg])

\* line 75 calls send_ssdp_broadcast; lines 97-98
GetLocalIps ==
    /\ pc = "start"
    /\ ips' = get_local_ips(adapters)
    /\ res' = <<>>
    /\ ipIdx' = 1
    /\ pc' = "for_ip"
    /\ UNCHANGED <<call, timer, rcvdOn, adapters, exc, stIdx, socks, sock, sent, entryIdx, urls, todo, cur,
                   http, receivers, origin, log>>

\* lines 100-103: the address matches the pattern, continue
ForIpSkip ==
    /\ pc = "for_ip"
    /\ ipIdx <= Len(ips)
    /\ LinkLocalSearch(ips[ipIdx])
    /\ ipIdx' = ipIdx + 1
    /\ UNCHANGED <<call, timer, rcvdOn, adapters, pc, exc, ips, stIdx, socks, sock, sent, res, entryIdx,
                   urls, todo, cur, http, receivers, origin, log>>

\* lines 100-104: the address does not match, enter the target loop
ForIpEnter ==
    /\ pc = "for_ip"
    /\ ipIdx <= Len(ips)
    /\ ~LinkLocalSearch(ips[ipIdx])
    /\ stIdx' = 1
    /\ pc' = "socket"
    /\ UNCHANGED <<call, timer, rcvdOn, adapters, exc, ips, ipIdx, socks, sock, sent, res, entryIdx,
                   urls, todo, cur, http, receivers, origin, log>>

\* line 100 exhausted, line 128
ForIpExhausted ==
    /\ pc = "for_ip"
    /\ ipIdx > Len(ips)
    /\ urls' = {}
    /\ entryIdx' = 1
    /\ pc' = "for_entry"
    /\ UNCHANGED <<call, timer, rcvdOn, adapters, exc, ips, ipIdx, stIdx, socks, sock, sent, res,
                   todo, cur, http, receivers, origin, log>>

\* lines 106-108: socket.socket(...), settimeout
SocketCreate ==
    /\ pc = "socket"
    /\ socks' = Append(socks, [ip |-> ips[ipIdx], st |-> SSDP_ST_LIST[stIdx], open |-> TRUE])
    /\ sock' = Len(socks) + 1
    /\ pc' = "bind"
    /\ UNCHANGED <<call, timer, rcvdOn, adapters, exc, ips, ipIdx, stIdx, sent, res, entryIdx,
                   urls, todo, cur, http, receivers, origin, log>>

\* line 109: sock.bind((ip, 0))
BindOk ==
    /\ pc = "bind"
    /\ pc' = "sendto"
    /\ UNCHANGED <<call, timer, rcvdOn, adapters, exc, ips, ipIdx, stIdx, socks, sock, sent, res, entryIdx,
                   urls, todo, cur, http, receivers, origin, log>>

\* line 109: bind fails (address not assignable, ...): OSError, not handled
BindError ==
    /\ pc = "bind"
    /\ Raise("OSError", 109)
    /\ UNCHANGED <<call, timer, rcvdOn, adapters, ips, ipIdx, stIdx, socks, sock, sent, res, entryIdx,
                   urls, todo, cur, http, receivers, origin, log>>

\* line 110: sock.sendto(ssdp_request(ssdp_st), (SSDP_ADDR, SSDP_PORT))
SendOk ==
    /\ pc = "sendto"
    /\ sent' = Append(sent, [sock |-> sock, ip |-> ips[ipIdx], st |-> SSDP_ST_LIST[stIdx],
                             data |-> ssdp_request(SSDP_ST_LIST[stIdx], SSDP_MX),
                             to |-> <<SSDP_ADDR, SSDP_PORT>>])
    /\ elapsed' = 0
    /\ waited' = 0
    /\ pc' = "recvfrom"
    /\ UNCHANGED <<call, rcvdOn, adapters, exc, ips, ipIdx, stIdx, socks, sock, res, entryIdx,
                   urls, todo, cur, http, receivers, origin, log>>

\* line 110: sendto fails (network unreachable, ...): OSError, not handled
SendError ==
    /\ pc = "sendto"
    /\ Raise("OSError", 110)
    /\ UNCHANGED <<call, timer, rcvdOn, adapters, ips, ipIdx, stIdx, socks, sock, sent, res, entryIdx,
                   urls, todo, cur, http, receivers, origin, log>>

\* line 108, 115: time passes while recvfrom() blocks, up to the timeout
Tick ==
    /\ pc = "recvfrom"
    /\ waited < SSDP_MX
    /\ waited' = waited + 1
    /\ elapsed' = elapsed + 1
    /\ UNCHANGED <<call, rcvdOn, adapters, pc, exc, ips, ipIdx, stIdx, socks, sock, sent,
                   res, entryIdx, urls, todo, cur, http, receivers, origin, log>>

\* lines 114-115: a datagram arrives before the timeout; the loop calls
\* recvfrom() again, with a fresh timeout
RecvDatagram ==
    /\ pc = "recvfrom"
    /\ waited < SSDP_MX
    /\ Len(res) < MaxRes
    /\ \E d \in Datagrams : res' = Append(res, d)
    /\ rcvdOn' = Append(rcvdOn, sock)
    /\ waited' = 0
    /\ UNCHANGED <<call, elapsed, adapters, pc, exc, ips, ipIdx, stIdx, socks, sock, sent, entryIdx,
                   urls, todo, cur, http, receivers, origin, log>>

\* mutant of RecvTimeout: the handler of lines 116-117 does not close the socket
RecvTimeoutNoClose ==
    /\ pc = "recvfrom"
    /\ waited = SSDP_MX
    /\ elapsed' = 0
    /\ waited' = 0
    /\ pc' = "if_res"
    /\ UNCHANGED <<call, rcvdOn, adapters, exc, ips, ipIdx, stIdx, socks, sock, sent, res, entryIdx,
                   urls, todo, cur, http, receivers, origin, log>>

\* lines 116-117: socket.timeout after SSDP_MX seconds without a datagram,
\* the handler closes the socket
RecvTimeout ==
    /\ pc = "recvfrom"
    /\ waited = SSDP_MX
    /\ socks' = Close(socks, sock)
    /\ elapsed' = 0
    /\ waited' = 0
    /\ pc' = "if_res"
    /\ UNCHANGED <<call, rcvdOn, adapters, exc, ips, ipIdx, stIdx, sock, sent, res, entryIdx,
                   urls, todo, cur, http, receivers, origin, log>>

\* line 115: recvfrom fails with an OSError other than socket.timeout, not handled
RecvError ==
    /\ pc = "recvfrom"
    /\ Raise("OSError", 115)
    /\ UNCHANGED <<call, timer, rcvdOn, adapters, ips, ipIdx, stIdx, socks, sock, sent, res, entryIdx,
                   urls, todo, cur, http, receivers, origin, log>>

\* mutant of IfResBreak: lines 124-125 are missing, the address loop goes on
IfResBreakInnerOnly ==
    /\ pc = "if_res"
    /\ res # <<>>
    /\ log' = Logged("debug", "Got results after SSDP queries")
    /\ socks' = Close(socks, sock)
    /\ ipIdx' = ipIdx + 1
    /\ pc' = "for_ip"
    /\ UNCHANGED <<call, timer, rcvdOn, adapters, exc, ips, stIdx, sock, sent, res, entryIdx, urls,
                   todo, cur, http, receivers, origin>>

\* lines 119-125 and 128: res is not empty: log, close, break, break
IfResBreak ==
    /\ pc = "if_res"
    /\ res # <<>>
    /\ log' = Logged("debug", "Got results after SSDP queries")
    /\ socks' = Close(socks, sock)
    /\ urls' = {}
    /\ entryIdx' = 1
    /\ pc' = "for_entry"
    /\ UNCHANGED <<call, timer, rcvdOn, adapters, exc, ips, ipIdx, stIdx, sock, sent, res,
                   todo, cur, http, receivers, origin>>

\* mutant of IfResNextTarget: the break of line 123 is missing, the target
\* loop goes on with the responses kept in res
IfResNextTargetKeepingRes ==
    /\ pc = "if_res"
    /\ stIdx < Len(SSDP_ST_LIST)
    /\ stIdx' = stIdx + 1
    /\ pc' = "socket"
    /\ UNCHANGED <<call, timer, rcvdOn, adapters, exc, ips, ipIdx, socks, sock, sent, res, entryIdx,
                   urls, todo, cur, http, receivers, origin, log>>

\* line 119 false, line 104: next search target
IfResNextTarget ==
    /\ pc = "if_res"
    /\ res = <<>>
    /\ stIdx < Len(SSDP_ST_LIST)
    /\ stIdx' = stIdx + 1
    /\ pc' = "socket"
    /\ UNCHANGED <<call, timer, rcvdOn, adapters, exc, ips, ipIdx, socks, sock, sent, res, entryIdx,
                   urls, todo, cur, http, receivers, origin, log>>

\* line 119 false, line 104 exhausted, line 124 false: next address
IfResNextIp ==
    /\ pc = "if_res"
    /\ res = <<>>
    /\ stIdx = Len(SSDP_ST_LIST)
    /\ ipIdx' = ipIdx + 1
    /\ pc' = "for_ip"
    /\ UNCHANGED <<call, timer, rcvdOn, adapters, exc, ips, stIdx, socks, sock, sent, res, entryIdx,
                   urls, todo, cur, http, receivers, origin, log>>

\* mutant of ExtractEntry: urls holds the last match only
ExtractEntryOverwrite ==
    /\ pc = "for_entry"
    /\ entryIdx <= Len(res)
    /\ Decodable(res[entryIdx][1])
    /\ LET match == LocationSearch(res[entryIdx][1])
       IN  urls' = IF match.isNone THEN urls ELSE {match.s}
    /\ entryIdx' = entryIdx + 1
    /\ UNCHANGED <<call, timer, rcvdOn, adapters, pc, exc, ips, ipIdx, stIdx, socks, sock, sent, res,
                   todo, cur, http, receivers, origin, log>>

\* lines 130-136: one entry of res
ExtractEntry ==
    /\ pc = "for_entry"
    /\ entryIdx <= Len(res)
    /\ Decodable(res[entryIdx][1])
    /\ LET match == LocationSearch(res[entryIdx][1])
       IN  urls' = IF match.isNone THEN urls ELSE urls \cup {match.s}
    /\ entryIdx' = entryIdx + 1
    /\ UNCHANGED <<call, timer, rcvdOn, adapters, pc, exc, ips, ipIdx, stIdx, socks, sock, sent, res,
                   todo, cur, http, receivers, origin, log>>

\* line 133: the payload is not UTF-8: UnicodeDecodeError, not handled
ExtractDecodeError ==
    /\ pc = "for_entry"
    /\ entryIdx <= Len(res)
    /\ ~Decodable(res[entryIdx][1])
    /\ Raise("UnicodeDecodeError", 133)
    /\ UNCHANGED <<call, timer, rcvdOn, adapters, ips, ipIdx, stIdx, socks, sock, sent, res, entryIdx,
                   urls, todo, cur, http, receivers, origin, log>>

\* lines 138-139 return urls; lines 75, 78
BroadcastReturn ==
    /\ pc = "for_entry"
    /\ entryIdx > Len(res)
    /\ log' = Logged("debug", "Following devices found")
    /\ todo' = urls
    /\ receivers' = <<>>
    /\ pc' = "for_url"
    /\ UNCHANGED <<call, timer, rcvdOn, adapters, exc, ips, ipIdx, stIdx, socks, sock, sent, res, entryIdx,
                   urls, cur, http, origin>>

(***************************************************************************)
(* Description documents and HTTP outcomes.                                *)
(***************************************************************************)
\* a child of <device>: find() gives None when it is absent; the .text of an
\* element without content is None
NoElement == [present |-> FALSE, text |-> None]
Element(t) == [present |-> TRUE, text |-> t]
Tags ==
    {SCPD_MANUFACTURER, SCPD_DEVICETYPE, SCPD_PRESENTATIONURL, SCPD_MODELNAME,
     SCPD_SERIALNUMBER, SCPD_FRIENDLYNAME}

\* a response body: not well-formed XML, a root without <device>, or a root
\* with a <device> and its children
Malformed == [xml |-> "malformed", device |-> FALSE, child |-> [t \in Tags |-> NoElement]]
NoDeviceDoc == [xml |-> "ok", device |-> FALSE, child |-> [t \in Tags |-> NoElement]]
DeviceDoc(man, dt, purl, model, serial, friendly) ==
    [xml |-> "ok", device |-> TRUE,
     child |-> [t \in Tags |->
        CASE t = SCPD_MANUFACTURER -> man
          [] t = SCPD_DEVICETYPE -> dt
          [] t = SCPD_PRESENTATIONURL -> purl
          [] t = SCPD_MODELNAME -> model
          [] t = SCPD_SERIALNUMBER -> serial
          [] t = SCPD_FRIENDLYNAME -> friendly]]

PURL_OK == <<"http:", "//", "192.168.1.50", "/index.html">>
PURL_PORT == <<"http:", "//", "192.168.1.50", ":", "80", "/index.html">>
PURL_PATH == <<"/index.html">>
PURL_BRACKET == <<"http:", "//", "[", "::1", "/index.html">>
MEDIA_SERVER == <<"urn:schemas-upnp-org:device:MediaServer:1">>

ManufacturerElems ==
    {NoElement, Element(None), Element(Str(<<"Denon">>)), Element(Str(<<"DENON">>)),
     Element(Str(<<"Marantz">>)), Element(Str(<<"Sony">>)), Element(Str(<<"denon">>))}
DeviceTypeElems ==
    {NoElement, Element(None), Element(Str(DEVICETYPE_DENON)), Element(Str(MEDIA_SERVER))}
PresentationElems ==
    {NoElement, Element(None), Element(Str(PURL_OK)), Element(Str(PURL_PORT)),
     Element(Str(PURL_PATH)), Element(Str(PURL_BRACKET))}
ModelElems == {NoElement, Element(None), Element(Str(<<"AVR-X2000">>))}
SerialElems == {NoElement, Element(None), Element(Str(<<"0005CD3A1B2C">>))}
FriendlyElems == {NoElement, Element(None), Element(Str(<<"Living Room AVR">>))}

AllDocs ==
    {Malformed, NoDeviceDoc} \cup
    {DeviceDoc(man, dt, purl, model, serial, friendly) :
        man \in ManufacturerElems, dt \in DeviceTypeElems, purl \in PresentationElems,
        model \in ModelElems, serial \in SerialElems, friendly \in FriendlyElems}

\* what requests.get does: raises, or returns a response
Failed(e) == [exc |-> e, status |-> 0, body |-> Malformed]
Response(status, body) == [exc |-> "none", status |-> status, body |-> body]
\* requests.exceptions: ConnectTimeout and its bases, and two request
\* failures that are no connect-timeout
ConnectTimeouts == {"ConnectTimeout"}
RequestExceptions == {"RequestException", "ConnectTimeout", "ConnectionError", "ReadTimeout"}

AllHttp ==
    {Failed(e) : e \in {"ConnectTimeout", "ConnectionError", "ReadTimeout"}} \cup
    {Response(st, d) : st \in {200, 404}, d \in AllDocs}

GoodDoc(man, dt) ==
    DeviceDoc(Element(Str(man)), Element(Str(dt)), Element(Str(PURL_OK)),
              Element(Str(<<"AVR-X2000">>)), Element(Str(<<"0005CD3A1B2C">>)),
              Element(Str(<<"Living Room AVR">>)))
\* what a fetch may give in a whole discovery run
Net ==
    {Failed("ConnectTimeout"), Failed("ConnectionError"),
     Response(404, GoodDoc(<<"Denon">>, DEVICETYPE_DENON)),
     Response(404, Malformed),
     Response(200, Malformed),
     Response(200, GoodDoc(<<"Denon">>, DEVICETYPE_DENON)),
     Response(200, GoodDoc(<<"Sony">>, DEVICETYPE_DENON)),
     Response(200, GoodDoc(<<"Marantz">>, MEDIA_SERVER)),
     Response(200, DeviceDoc(Element(Str(<<"Denon">>)), Element(Str(DEVICETYPE_DENON)),
                             Element(Str(PURL_PATH)), Element(None),
                             Element(Str(<<"0005CD3A1B2C">>)),
                             Element(Str(<<"Living Room AVR">>)))),
     Response(200, DeviceDoc(Element(Str(<<"DENON">>)), Element(Str(DEVICETYPE_DENON)),
                             Element(Str(PURL_OK)), Element(Str(<<"AVR-X2000">>)),
                             NoElement, Element(Str(<<"Living Room AVR">>))))}

(***************************************************************************)
(* urlparse(text).hostname, lines 174-176.                                 *)
(***************************************************************************)
SchemeTokens == {"http:", "https:"}
PathTokens == {"/", "/index.html", "?", "#"}
\* the tokens of s from position k up to, not including, the first path token
RECURSIVE UpToPath(_, _)
UpToPath(s, k) ==
    IF k > Len(s) \/ s[k] \in PathTokens THEN <<>>
    ELSE <<s[k]>> \o UpToPath(s, k + 1)
\* netloc: what follows "//" after the optional scheme, up to the path
Netloc(s) ==
    LET k == IF Len(s) >= 1 /\ s[1] \in SchemeTokens THEN 2 ELSE 1
    IN  IF k <= Len(s) /\ s[k] = "//" THEN UpToPath(s, k + 1) ELSE <<>>
\* the part of the netloc before the port
RECURSIVE BeforeColon(_)
BeforeColon(n) ==
    IF n = <<>> \/ n[1] = ":" THEN <<>> ELSE <<n[1]>> \o BeforeColon(Tail(n))
\* [exc, value]: ValueError for unbalanced brackets in the netloc; hostname
\* None when the text is None or has no authority
UrlHostname(text) ==
    IF text.isNone THEN [exc |-> "none", value |-> None]
    ELSE LET n == Netloc(text.s)
             open == \E j \in 1..Len(n) : n[j] = "["
             close == \E j \in 1..Len(n) : n[j] = "]"
         IN  IF open # close THEN [exc |-> "ValueError", value |-> None]
             ELSE IF BeforeColon(n) = <<>> THEN [exc |-> "none", value |-> None]
             ELSE [exc |-> "none", value |-> Str(BeforeColon(n))]

(***************************************************************************)
(* evaluate_scpd_xml, lines 142-195.                                       *)
(***************************************************************************)
\* root.find(SCPD_DEVICE).find(tag).text: [exc, value]
ChildText(doc, tag) ==
    IF ~doc.device \/ ~doc.child[tag].present
    THEN [exc |-> "AttributeError", value |-> None]
    ELSE [exc |-> "none", value |-> doc.child[tag].text]

NoDict ==
    [manufacturer |-> None, host |-> None, presentationURL |-> None,
     modelName |-> None, serialNumber |-> None, friendlyName |-> None]
Raised(e, lg) == [kind |-> "raise", exc |-> e, device |-> NoDict, log |-> lg]
ReturnedFalse(lg) == [kind |-> "False", exc |-> "none", device |-> NoDict, log |-> lg]
ReturnedDict(d, lg) == [kind |-> "dict", exc |-> "none", device |-> d, log |-> lg]

\* the first exception of a sequence of [exc, value] steps, "none" if none
RECURSIVE FirstExc(_)
FirstExc(steps) ==
    IF steps = <<>> THEN "none"
    ELSE IF steps[1].exc # "none" THEN steps[1].exc
    ELSE FirstExc(Tail(steps))

\* mutant of ManufacturerSupported: the comparison ignores case
ManufacturerSupportedNoCase(text) ==
    text \in {Str(m) : m \in SUPPORTED_MANUFACTURERS \cup {<<"denon">>, <<"marantz">>}}
\* line 171: device["manufacturer"] in SUPPORTED_MANUFACTURERS
ManufacturerSupported(text) == text \in {Str(m) : m \in SUPPORTED_MANUFACTURERS}
\* mutant of DeviceTypeMatches: any device type is accepted
DeviceTypeAny(text) == ~text.isNone
\* lines 172-173: ... .text == DEVICETYPE_DENON
DeviceTypeMatches(text) == text = Str(DEVICETYPE_DENON)

\* lines 174-185: the matching branch
FillDevice(doc, man) ==
    LET purl == ChildText(doc, SCPD_PRESENTATIONURL)
        host == IF purl.exc # "none" THEN purl ELSE UrlHostname(purl.value)
        model == ChildText(doc, SCPD_MODELNAME)
        serial == ChildText(doc, SCPD_SERIALNUMBER)
        friendly == ChildText(doc, SCPD_FRIENDLYNAME)
        e == FirstExc(<<purl, host, model, serial, friendly>>)
        lg == <<[level |-> "debug", msg |-> "Device has manufacturer"]>>
    IN  IF e # "none" THEN Raised(e, lg)
        ELSE ReturnedDict([manufacturer |-> man, host |-> host.value,
                           presentationURL |-> purl.value, modelName |-> model.value,
                           serialNumber |-> serial.value,
                           friendlyName |-> friendly.value], lg)

\* lines 162-187: the body of the try statement
TryBody(doc) ==
    IF doc.xml # "ok" THEN Raised("ParseError", <<>>)
    ELSE LET man == ChildText(doc, SCPD_MANUFACTURER)
             lg == <<[level |-> "debug", msg |-> "Device has manufacturer"]>>
         IN  IF man.exc # "none" THEN Raised(man.exc, <<>>)
             ELSE IF ~ManufacturerSupported(man.value) THEN ReturnedFalse(lg)
             ELSE LET dt == ChildText(doc, SCPD_DEVICETYPE)
                  IN  IF dt.exc # "none" THEN Raised(dt.exc, lg)
                      ELSE IF ~DeviceTypeMatches(dt.value) THEN ReturnedFalse(lg)
                      ELSE FillDevice(doc, man.value)

\* mutant of Handled: AttributeError is not caught
HandledWithoutAttributeError == {"ValueError", "ParseError"}
\* line 188: except (AttributeError, ValueError, ET.ParseError)
Handled == {"AttributeError", "ValueError", "ParseError"}

\* mutant of EvaluateResponse: the status is not looked at
EvaluateResponseAnyStatus(resp) ==
    LET r == TryBody(resp.body)
    IN  IF r.kind = "raise" /\ r.exc \in Handled
        THEN ReturnedFalse(r.log \o <<[level |-> "error",
                                       msg |-> "Error occurred during evaluation of SCPD XML"]>>)
        ELSE r

\* lines 160-195
EvaluateResponse(resp) ==
    IF resp.status = 200
    THEN LET r == TryBody(resp.body)
         IN  IF r.kind = "raise" /\ r.exc \in Handled
             THEN ReturnedFalse(r.log \o <<[level |-> "error",
                                            msg |-> "Error occurred during evaluation of SCPD XML"]>>)
             ELSE r
    ELSE ReturnedFalse(<<[level |-> "debug", msg |-> "Host returned HTTP status"]>>)

\* lines 150-158: what the request's failure does
RequestFailed(e) ==
    IF e \in ConnectTimeouts THEN Raised(e, <<>>)
    ELSE Raised(e, <<[level |-> "error", msg |-> "During DenonAVR device identification"]>>)

evaluate_scpd_xml(url, h) ==
    IF h.exc # "none" THEN RequestFailed(h.exc) ELSE EvaluateResponse(h)

(***************************************************************************)
(* identify_denonavr_receivers, lines 67-87.                               *)
(***************************************************************************)
\* mutant of Caught: only the connect-timeout is caught
CaughtConnectTimeoutOnly(e) == e \in ConnectTimeouts
\* line 82: except requests.exceptions.RequestException
Caught(e) == e \in RequestExceptions

\* line 79 takes the next url of the set (in no defined order); line 151:
\* requests.get(url, timeout=2)
Fetch ==
    /\ pc = "for_url"
    /\ \E u \in todo :
        /\ cur' = u
        /\ todo' = todo \ {u}
    /\ \E h \in Net : http' = h
    /\ pc' = "evaluate"
    /\ UNCHANGED <<call, timer, rcvdOn, adapters, exc, ips, ipIdx, stIdx, socks, sock, sent, res, entryIdx,
                   urls, receivers, origin, log>>

\* lines 80-85: the rest of evaluate_scpd_xml, and what the loop does with it
Evaluate ==
    /\ pc = "evaluate"
    /\ LET r == evaluate_scpd_xml(cur, http)
       IN  /\ log' = log \o r.log
           /\ origin' = Append(origin, [url |-> cur, http |-> http, ret |-> r])
           /\ receivers' = IF r.kind = "dict" THEN Append(receivers, r.device)
                           ELSE receivers
           /\ IF r.kind = "raise" /\ ~Caught(r.exc)
              THEN Raise(r.exc, 81)
              ELSE pc' = "for_url" /\ exc' = exc
    /\ UNCHANGED <<call, timer, rcvdOn, adapters, ips, ipIdx, stIdx, socks, sock, sent, res, entryIdx,
                   urls, todo, cur, http>>

\* line 87
FacadeReturn ==
    /\ pc = "for_url"
    /\ todo = {}
    /\ pc' = "done"
    /\ UNCHANGED <<call, timer, rcvdOn, adapters, exc, ips, ipIdx, stIdx, socks, sock, sent, res, entryIdx,
                   urls, todo, cur, http, receivers, origin, log>>

(***************************************************************************)
(* Specifications.                                                         *)
(***************************************************************************)
Idle ==
    /\ exc = NoException
    /\ ips = <<>>
    /\ ipIdx = 1
    /\ stIdx = 1
    /\ socks = <<>>
    /\ sock = 0
    /\ sent = <<>>
    /\ res = <<>>
    /\ entryIdx = 1
    /\ urls = {}
    /\ todo = {}
    /\ receivers = <<>>
    /\ origin = <<>>
    /\ log = <<>>
    /\ rcvdOn = <<>>
    /\ elapsed = 0
    /\ waited = 0

\* one run of identify_denonavr_receivers()
Init ==
    /\ adapters \in DistinctLists(FacadeAddrs, MaxIps)
    /\ pc = "start"
    /\ cur = URL_A
    /\ http = Failed("ConnectTimeout")
    /\ arg = <<>>
    /\ ret = <<>>
    /\ Idle

Broadcast ==
    \/ GetLocalIps
    \/ ForIpSkip
    \/ ForIpEnter
    \/ ForIpExhausted
    \/ SocketCreate
    \/ BindOk
    \/ BindError
    \/ SendOk
    \/ SendError
    \/ Tick
    \/ RecvDatagram
    \/ RecvTimeout
    \/ RecvError
    \/ IfResBreak
    \/ IfResNextTarget
    \/ IfResNextIp
    \/ ExtractEntry
    \/ ExtractDecodeError
    \/ BroadcastReturn

Next ==
    \/ Broadcast
    \/ Fetch
    \/ Evaluate
    \/ FacadeReturn

Spec == Init /\ [][Next]_vars

\* one call of send_ssdp_broadcast(), up to its return or its exception
InitBroadcast ==
    /\ adapters \in DistinctLists(LocalAddrs, MaxIps)
    /\ pc = "start"
    /\ cur = URL_A
    /\ http = Failed("ConnectTimeout")
    /\ arg = <<>>
    /\ ret = <<>>
    /\ Idle

SpecBroadcast == InitBroadcast /\ [][Broadcast]_vars

\* lines 128-139 of send_ssdp_broadcast on every response text of LocParts:
\* the first broadcast from 192.168.1.10 collected that one response
InitExtract ==
    /\ adapters = <<IPv4(<<192, 168, 1, 10>>)>>
    /\ ips = get_local_ips(adapters)
    /\ pc = "for_entry"
    /\ exc = NoException
    /\ ipIdx = 1
    /\ stIdx = 1
    /\ socks = <<[ip |-> ips[1], st |-> SSDP_ST_LIST[1], open |-> FALSE]>>
    /\ sock = 1
    /\ sent = <<[sock |-> 1, ip |-> ips[1], st |-> SSDP_ST_LIST[1],
                 data |-> ssdp_request(SSDP_ST_LIST[1], SSDP_MX),
                 to |-> <<SSDP_ADDR, SSDP_PORT>>]>>
    /\ \E p \in LocParts : res = <<<<LocText(p), "192.168.1.50">>>>
    /\ rcvdOn = <<1>>
    /\ entryIdx = 1
    /\ urls = {}
    /\ todo = {}
    /\ cur = URL_A
    /\ http = Failed("ConnectTimeout")
    /\ receivers = <<>>
    /\ origin = <<>>
    /\ log = <<[level |-> "debug", msg |-> "Got results after SSDP queries"]>>
    /\ elapsed = 0
    /\ waited = 0
    /\ arg = <<>>
    /\ ret = <<>>

NextExtract ==
    \/ ExtractEntry
    \/ ExtractDecodeError
    \/ BroadcastReturn

SpecExtract == InitExtract /\ [][NextExtract]_vars

\* ssdp_request(ssdp_st, ssdp_mx) called on its own
RequestCall ==
    /\ pc = "request"
    /\ ret' = ssdp_request(arg[1], arg[2])
    /\ pc' = "requested"
    /\ UNCHANGED <<arg, timer, rcvdOn, adapters, exc, ips, ipIdx, stIdx, socks, sock, sent,
                   res, entryIdx, urls, todo, cur, http, receivers, origin, log>>

\* search targets given to ssdp_request
RequestTargets == Range(SSDP_ST_LIST) \cup {MEDIA_SERVER, <<"ssdp:", "all">>}

InitRequest ==
    /\ adapters = <<>>
    /\ pc = "request"
    /\ cur = URL_A
    /\ http = Failed("ConnectTimeout")
    /\ arg \in RequestTargets \X ((0 - MaxMx)..MaxMx)
    /\ ret = <<>>
    /\ Idle

SpecRequest == InitRequest /\ [][RequestCall]_vars

\* evaluate_scpd_xml on every outcome of the fetch of one url, as the last
\* iteration of the loop of identify_denonavr_receivers
InitEval ==
    /\ adapters = <<>>
    /\ pc = "evaluate"
    /\ cur = URL_A
    /\ http \in AllHttp
    /\ arg = <<>>
    /\ ret = <<>>
    /\ Idle

NextEval ==
    \/ Evaluate
    \/ FacadeReturn

SpecEval == InitEval /\ [][NextEval]_vars

(***************************************************************************)
(* Properties.                                                             *)
(***************************************************************************)
\* the calls of evaluate_scpd_xml that returned a device record, in order
Produced == SelectSeq(origin, LAMBDA o : o.ret.kind = "dict")
\* the fetch gave HTTP 200 with a well-formed document that has a <device>
Parsed200(h) == h.exc = "none" /\ h.status = 200 /\ h.body.xml = "ok" /\ h.body.device
\* the document names a supported manufacturer and the expected device type
DocMatches(doc) ==
    /\ doc.xml = "ok"
    /\ doc.device
    /\ doc.child["manufacturer"] \in
           {Element(Str(<<"Denon">>)), Element(Str(<<"DENON">>)), Element(Str(<<"Marantz">>))}
    /\ doc.child["deviceType"] =
           Element(Str(<<"urn:schemas-upnp-org:device:MediaRenderer:1">>))
\* send_ssdp_broadcast has returned
BroadcastReturned == pc \in {"for_url", "evaluate", "done"}
RecordFields ==
    {"host", "modelName", "friendlyName", "presentationURL", "serialNumber"}

\* C1: every record of the returned list comes from a fetch whose document
\* has a supported manufacturer and the MediaRenderer device type; a fetch
\* whose document lacks either contributes no record.
C1_RecordsOnlyFromMatchingDocuments ==
    /\ Len(receivers) = Len(Produced)
    /\ \A i \in 1..Len(Produced) :
        /\ receivers[i] = Produced[i].ret.device
        /\ Produced[i].http.exc = "none"
        /\ DocMatches(Produced[i].http.body)
    /\ \A i \in 1..Len(origin) :
        ~DocMatches(origin[i].http.body) => origin[i].ret.kind # "dict"

\* a finished run that returned a record and also fetched a document with
\* only one of the two fields matching
C1_Witness ==
    /\ pc = "done"
    /\ Len(receivers) = 1
    /\ Len(origin) = 2
    /\ \E i \in 1..2 :
        /\ Parsed200(origin[i].http)
        /\ origin[i].http.body.child["manufacturer"] = Element(Str(<<"Marantz">>))
        /\ ~DocMatches(origin[i].http.body)

\* C2: identify_denonavr_receivers() never raises, whatever fails.
C2_NeverRaises == pc # "raised"

\* C3: once res holds a response, no further socket is created and no
\* further broadcast is sent.
C3_ShortCircuit ==
    [][res # <<>> => (sent' = sent /\ Len(socks') = Len(socks))]_vars

\* two eligible addresses, the first answered the first target: one broadcast
C3_Witness ==
    /\ pc = "for_url"
    /\ Len(ips) = 2
    /\ \A k \in 1..2 : ~LinkLocalSearch(ips[k])
    /\ res # <<>>
    /\ Len(sent) = 1

\* C4: when send_ssdp_broadcast has returned or raised, every socket it
\* created is closed.
C4_SocketsClosedOnEveryExit ==
    (BroadcastReturned \/ pc = "raised") => \A k \in 1..Len(socks) : ~socks[k].open

\* C5 as stated: for HTTP 200 with a parseable document with a <device>, a
\* record is returned iff manufacturer and deviceType match.
C5_RecordIffBothMatch ==
    \A i \in 1..Len(origin) :
        Parsed200(origin[i].http) =>
            (origin[i].ret.kind = "dict" <=> DocMatches(origin[i].http.body))

\* the presentationURL, modelName, serialNumber and friendlyName elements
\* are present and the presentationURL text has no unbalanced bracket in its
\* authority
RestExtractable(doc) ==
    /\ \A t \in {"presentationURL", "modelName", "serialNumber", "friendlyName"} :
        doc.child[t].present
    /\ LET text == doc.child["presentationURL"].text
       IN  text.isNone \/
           (("[" \in Range(Netloc(text.s))) <=> ("]" \in Range(Netloc(text.s))))

\* C5 amended: for HTTP 200 with a parseable document with a <device>, a
\* record is returned iff manufacturer and deviceType match and the four
\* other elements can be extracted; otherwise False is returned.
C5_RecordIffMatchAndExtractable ==
    \A i \in 1..Len(origin) :
        Parsed200(origin[i].http) =>
            /\ origin[i].ret.kind \in {"dict", "False"}
            /\ origin[i].ret.kind = "dict" <=>
                   (DocMatches(origin[i].http.body) /\ RestExtractable(origin[i].http.body))

\* a matching document without a modelName element was evaluated: False
C5_Witness ==
    /\ Len(origin) = 1
    /\ Parsed200(origin[1].http)
    /\ DocMatches(origin[1].http.body)
    /\ ~origin[1].http.body.child["modelName"].present
    /\ origin[1].ret.kind = "False"

\* C6: a request failure while resolving one url skips that url only: it
\* never leaves identify_denonavr_receivers, every url of the set is
\* resolved exactly once, and the list holds exactly the records of the
\* urls whose resolution returned one.
C6_NetworkErrorSkipsOneUrl ==
    /\ exc.type \notin RequestExceptions
    /\ \A i \in 1..Len(origin) :
        origin[i].http.exc # "none" => origin[i].ret.kind = "raise"
    /\ pc = "done" =>
        /\ \A u \in urls : Cardinality({i \in 1..Len(origin) : origin[i].url = u}) = 1
        /\ \A i \in 1..Len(origin) : origin[i].url \in urls
        /\ Len(receivers) = Cardinality({i \in 1..Len(origin) : origin[i].ret.kind = "dict"})
        /\ \A i \in 1..Len(origin) :
            origin[i].ret.kind = "dict" => origin[i].ret.device \in Range(receivers)

\* the first url failed with a request error, the second gave a record
C6_Witness ==
    /\ pc = "done"
    /\ Len(origin) = 2
    /\ origin[1].http.exc = "ConnectionError"
    /\ origin[2].ret.kind = "dict"
    /\ Len(receivers) = 1

\* the body is malformed or lacks an element the code reads
LacksExpected(doc) ==
    \/ doc.xml # "ok"
    \/ ~doc.device
    \/ ~doc.child["manufacturer"].present
    \/ ~doc.child["deviceType"].present
    \/ /\ DocMatches(doc)
       /\ \E t \in {"presentationURL", "modelName", "serialNumber", "friendlyName"} :
            ~doc.child[t].present
\* C7: an HTTP 200 body that is malformed or lacks an expected element
\* (device, manufacturer, deviceType, or with both matching one of the four
\* others) makes evaluate_scpd_xml return False; nothing is raised.
C7_MalformedIsRejected ==
    /\ \A i \in 1..Len(origin) :
        (origin[i].http.exc = "none" /\ origin[i].http.status = 200
            /\ LacksExpected(origin[i].http.body)) => origin[i].ret.kind = "False"
    /\ \A i \in 1..Len(origin) :
        origin[i].http.exc = "none" => origin[i].ret.kind # "raise"
    /\ pc # "raised"

\* a matching document without a friendlyName element was evaluated and the
\* run went on to return
C7_Witness ==
    /\ pc = "done"
    /\ Len(origin) = 1
    /\ DocMatches(origin[1].http.body)
    /\ origin[1].http.status = 200
    /\ ~origin[1].http.body.child["friendlyName"].present
    /\ origin[1].ret.kind = "False"
    /\ receivers = <<>>

\* the address lies in 169.254.0.0/16
InLinkLocal16(o) == o[1] = 169 /\ o[2] = 254
\* C8: with no response anywhere, a broadcast is sent from an IPv4 address
\* iff its first two octets are not 169.254, and no socket is created for
\* an address in 169.254.0.0/16.
C8_SkipsExactlyLinkLocal ==
    (BroadcastReturned /\ res = <<>>) =>
        \A k \in 1..Len(adapters) :
            adapters[k].is_str =>
                /\ (\E j \in 1..Len(sent) : sent[j].ip = IpText(adapters[k].octets))
                       <=> ~InLinkLocal16(adapters[k].octets)
                /\ InLinkLocal16(adapters[k].octets) =>
                       \A j \in 1..Len(socks) : socks[j].ip # IpText(adapters[k].octets)

\* C9: every field of every returned record is a string, never None.
C9_FieldsAreStrings ==
    pc = "done" =>
        \A i \in 1..Len(receivers) : \A f \in RecordFields : ~receivers[i][f].isNone

\* the LOCATION values of the collected responses
Locations ==
    {LocationSearch(res[i][1]).s :
        i \in {j \in 1..Len(res) : ~LocationSearch(res[j][1]).isNone}}
C11_LocationIsExactValue ==
    pc = "for_url" =>
        \A p \in LocParts :
            (res[1][1] = LocText(p) /\ p.name = "LOCATION:" /\ p.gap # <<>>) =>
                urls = {p.value}

\* the fetch returned a response whose status is not 200
Non200(h) == h.exc = "none" /\ h.status # 200

\* C12: a status other than 200 makes evaluate_scpd_xml return False,
\* without raising and without parsing the body (nothing but the status is
\* logged, whatever the body); when every url answers so, the run returns
\* an empty list and raises nothing.
C12_Non200IsRejected ==
    /\ \A i \in 1..Len(origin) :
        Non200(origin[i].http) =>
            /\ origin[i].ret.kind = "False"
            /\ origin[i].ret.log =
                   <<[level |-> "debug", msg |-> "Host returned HTTP status"]>>
    /\ (origin # <<>> /\ \A i \in 1..Len(origin) : Non200(origin[i].http)) =>
        /\ pc # "raised"
        /\ receivers = <<>>

\* two urls, both answered 404, one with a body that is no XML: empty list
C12_Witness ==
    /\ pc = "done"
    /\ Len(origin) = 2
    /\ \A i \in 1..2 : origin[i].http.exc = "none" /\ origin[i].http.status = 404
    /\ \E i \in 1..2 : origin[i].http.body = Malformed
    /\ \E i \in 1..2 : DocMatches(origin[i].http.body)
    /\ receivers = <<>>

\* the number a string of decimal digits writes
DigitValue(c) ==
    CASE c = "0" -> 0 [] c = "1" -> 1 [] c = "2" -> 2 [] c = "3" -> 3 [] c = "4" -> 4
      [] c = "5" -> 5 [] c = "6" -> 6 [] c = "7" -> 7 [] c = "8" -> 8 [] c = "9" -> 9
RECURSIVE DecimalValue(_)
DecimalValue(d) ==
    IF d = <<>> THEN 0
    ELSE 10 * DecimalValue(SubSeq(d, 1, Len(d) - 1)) + DigitValue(d[Len(d)])
\* d writes the natural number v, without sign and without leading zeros
WritesNatural(d, v) ==
    /\ Len(d) >= 1
    /\ \A k \in 1..Len(d) : d[k] \in {"0", "1", "2", "3", "4", "5", "6", "7", "8", "9"}
    /\ Len(d) > 1 => d[1] # "0"
    /\ DecimalValue(d) = v
\* d writes the integer v
WritesInteger(d, v) ==
    IF v < 0 THEN Len(d) >= 2 /\ d[1] = "-" /\ WritesNatural(Tail(d), 0 - v)
    ELSE WritesNatural(d, v)

\* C13: ssdp_request(st, mx) is the lines M-SEARCH * HTTP/1.1, ST: <st>,
\* MX: <mx>, MAN: "ssdp:discover", HOST: 239.255.255.250:1900 in that order
\* and one blank line, each ended by CRLF, so that it ends in CRLF CRLF.
C13_RequestLines ==
    pc = "requested" =>
        LET head == <<"M-SEARCH * HTTP/1.1", "\r", "\n", "ST: ">> \o arg[1]
                        \o <<"\r", "\n", "MX: ">>
            tail == <<"\r", "\n", "MAN: \"ssdp:discover\"", "\r", "\n",
                      "HOST: ", "239.255.255.250", ":", "1", "9", "0", "0",
                      "\r", "\n", "\r", "\n">>
            n == Len(ret) - Len(head) - Len(tail)
        IN  /\ n >= 1
            /\ SubSeq(ret, 1, Len(head)) = head
            /\ WritesInteger(SubSeq(ret, Len(head) + 1, Len(head) + n), arg[2])
            /\ SubSeq(ret, Len(head) + n + 1, Len(ret)) = tail

\* the request for the MediaRenderer target with a two-digit negative mx
C13_Witness ==
    /\ pc = "requested"
    /\ arg = <<SSDP_ST_3, 0 - 12>>
    /\ SubSeq(ret, 9, 11) = <<"-", "1", "2">>
    /\ Len(ret) = 27

\* the (address, target) pairs of the entries that keep(entry) retains, in
\* enumeration order, each address with the three targets in their order
RECURSIVE PairsOf(_)
PairsOf(entries) ==
    IF entries = <<>> THEN <<>>
    ELSE [k \in 1..3 |-> [ip |-> IpText(entries[1].octets),
                          st |-> <<<<"ssdp:all">>, <<"upnp:rootdevice">>,
                                   <<"urn:schemas-upnp-org:device:MediaRenderer:1">>>>[k]]]
         \o PairsOf(Tail(entries))
\* the broadcasts sent are the first pairs of expected, in order; responses
\* came to the last broadcast only; without any response every pair of
\* expected was tried, once, and the url set is empty
SearchFollows(expected) ==
    /\ Len(sent) <= Len(expected)
    /\ \A j \in 1..Len(sent) :
        sent[j].ip = expected[j].ip /\ sent[j].st = expected[j].st
    /\ \A k \in 1..Len(rcvdOn) : \A j \in 1..Len(sent) : sent[j].sock <= rcvdOn[k]
    /\ (BroadcastReturned /\ res = <<>>) => (Len(sent) = Len(expected) /\ urls = {})
OutsideLinkLocal16(entry) == entry.is_str /\ ~InLinkLocal16(entry.octets)
PassesFilter(entry) == entry.is_str /\ ~LinkLocalSearch(IpText(entry.octets))

\* C14: broadcasts go address by address in enumeration order and target by
\* target in the fixed order, each only if every earlier one had no response;
\* without any response every eligible address (one outside 169.254.0.0/16)
\* is tried with all three targets exactly once and the url set is empty.
C14_SearchOrderAndExhaustiveness == 
    SearchFollows(PairsOf(SelectSeq(adapters, OutsideLinkLocal16)))

\* the same order and exhaustiveness over the addresses that the pattern of
\* line 102 retains
SearchOrderOverRetainedAddresses == 
    SearchFollows(PairsOf(SelectSeq(adapters, PassesFilter)))

\* C15: the discovery pass terminates within bounds: the collection window
\* of one search request lasts no longer than the receive timeout, also when
\* datagrams keep arriving before each timeout; there are at most three
\* broadcasts per eligible address and at most one fetch per candidate url.
C15_WindowAndWorkBounded ==
    /\ pc = "recvfrom" => elapsed <= SSDP_MX
    /\ Len(sent) <= 3 * Len(SelectSeq(adapters, OutsideLinkLocal16))
    /\ Len(origin) <= Cardinality(urls)

\* the part of C15 about the amount of work, without the window
BroadcastsAndFetchesBounded ==
    /\ Len(sent) <= 3 * Len(SelectSeq(adapters, OutsideLinkLocal16))
    /\ Len(origin) <= Cardinality(urls)

\* the window of one broadcast has grown by one receive timeout per datagram
WindowGrowsWithEachDatagram ==
    /\ pc = "recvfrom"
    /\ Len(res) = MaxRes
    /\ elapsed = MaxRes * (SSDP_MX - 1) + SSDP_MX

\* the records of level "error" in a sequence of log records
ErrorRecords(lg) == SelectSeq(lg, LAMBDA rec : rec.level = "error")

\* C16: every failure of the fetch of a description document, a
\* connect-timeout as well as any other request failure, is logged before it
\* leaves evaluate_scpd_xml.
C16_EveryFetchFailureIsLogged ==
    \A k \in 1..Len(origin) :
        origin[k].http.exc # "none" =>
            /\ origin[k].ret.kind = "raise"
            /\ origin[k].ret.log # <<>>

\* what lines 150-158 do log: a request failure other than a connect-timeout
\* leaves evaluate_scpd_xml with one error record logged; a connect-timeout
\* leaves it with nothing logged, so after the facade has skipped the url
\* the log holds no error record for it
FetchFailureLoggedUnlessConnectTimeout ==
    \A k \in 1..Len(origin) :
        origin[k].http.exc # "none" =>
            /\ origin[k].ret.kind = "raise"
            /\ origin[k].ret.exc = origin[k].http.exc
            /\ IF origin[k].http.exc \in ConnectTimeouts
               THEN origin[k].ret.log = <<>>
               ELSE /\ Len(origin[k].ret.log) = 1
                    /\ Len(ErrorRecords(origin[k].ret.log)) = 1
                    /\ ErrorRecords(log) # <<>>
            /\ (\A j \in 1..Len(origin) : origin[j].http.exc \in ConnectTimeouts)
                   => ErrorRecords(log) = <<>>

SilentConnectTimeout ==
    /\ pc = "done"
    /\ Len(origin) = 2
    /\ origin[1].http = Failed("ConnectTimeout")
    /\ origin[2].http = Failed("ConnectionError")
    /\ Len(ErrorRecords(log)) = 1

\* C17: res is empty whenever a broadcast starts, so all the responses that
\* urls are extracted from were received on the socket of one broadcast, that
\* is for one (local address, search target) pair.
C17_SingleSourceResponses ==
    /\ pc \in {"socket", "bind", "sendto"} => res = <<>>
    /\ Len(rcvdOn) = Len(res)
    /\ \A j, k \in 1..Len(rcvdOn) : rcvdOn[j] = rcvdOn[k]
    /\ \A k \in 1..Len(rcvdOn) :
        /\ rcvdOn[k] = sent[Len(sent)].sock
        /\ socks[rcvdOn[k]].ip = sent[Len(sent)].ip
        /\ socks[rcvdOn[k]].st = sent[Len(sent)].st

C17_Witness ==
    /\ pc = "for_entry"
    /\ entryIdx > Len(res)
    /\ Len(sent) = 2
    /\ rcvdOn = <<2, 2>>
    /\ urls # {}

\* the sockets that are open
OpenSocks == {k \in 1..Len(socks) : socks[k].open}

\* C18: at most one broadcast socket is open at any moment: when the socket
\* of the next broadcast is created the earlier ones are closed; the second
\* close of the success path (line 121) changes no socket.
C18_AtMostOneOpenSocket ==
    /\ [](/\ Cardinality(OpenSocks) <= 1
          /\ OpenSocks \subseteq {sock}
          /\ pc = "socket" => OpenSocks = {})
    /\ [][(pc = "if_res" /\ res # <<>>) => (socks' = socks /\ OpenSocks = {})]_vars

C18_Witness ==
    /\ pc = "for_entry"
    /\ res # <<>>
    /\ Len(socks) = 2
    /\ OpenSocks = {}

====
